---- MODULE Spec2Model ----
(***************************************************************************)
(* GPIOClient (src/gpio/client.ts): a Jacdac sensor client that decodes    *)
(* the streamed pin-state bitmask, caches the constant NumPins register    *)
(* and frames the Configure / PinInfo / PinByLabel / PinByHwPin commands.  *)
(*                                                                         *)
(* The register store (RegisterClient.pauseUntilValues, setStreaming,      *)
(* onStateChanged), the command channel (sendCommand) and the connection   *)
(* (start) belong to the jacdac runtime, which is not part of src/; they   *)
(* are modelled from the specification text and marked so in the map.      *)
(***************************************************************************)
EXTENDS Integers, Sequences, FiniteSets, TLC

(***************************************************************************)
(* Bounds of the model.                                                    *)
(***************************************************************************)
MaxBufLen == 2
MaxSent == 2
MaxHandlers == 2

(***************************************************************************)
(* Numbers.  A TypeScript number argument can exceed 32 bits while TLC's   *)
(* integers cannot, so a number n is kept as [hi, lo] with                 *)
(* n = hi * 2^16 + lo and 0 <= lo < 2^16.                                  *)
(***************************************************************************)
Two16 == 2 ^ 16

Wide(n) == [hi |-> n \div Two16, lo |-> n % Two16]

\* 2^32 * k + n, for small k and n
Wide32(k, n) == [hi |-> k * Two16 + (n \div Two16), lo |-> n % Two16]

IsNegative(p) == p.hi < 0

\* ECMAScript ToInt32: the operand of >> is reduced modulo 2^32 and read as
\* a signed 32-bit integer
ToInt32(p) ==
    LET h == p.hi % Two16
    IN  IF h >= Two16 \div 2 THEN (h - Two16) * Two16 + p.lo
                             ELSE h * Two16 + p.lo

\* x >> n on a signed 32-bit x: arithmetic shift, the count taken modulo 32
Sar(x, n) == x \div (2 ^ (n % 32))

\* pin % 8 : the remainder takes the sign of the dividend (2^16 is a
\* multiple of 8, so only lo matters)
Rem8(p) ==
    IF p.hi >= 0 THEN p.lo % 8 ELSE 0 - ((8 - (p.lo % 8)) % 8)

\* buf[0] = n on a Buffer stores n modulo 256 (2^16 is a multiple of 256)
ToUint8_clamped(p) ==
    IF p.hi < 0 THEN 0 ELSE IF p.hi > 0 \/ p.lo > 255 THEN 255 ELSE p.lo

ToUint8(p) == p.lo % 256

(***************************************************************************)
(* Optional values: a register without data, an undefined result.          *)
(***************************************************************************)
NoBuffer == [has |-> FALSE, data |-> <<>>]
SomeBuffer(b) == [has |-> TRUE, data |-> b]
NoNumber == [has |-> FALSE, data |-> 0]
SomeNumber(n) == [has |-> TRUE, data |-> n]

\* values[0] of the tuple of values a wait returned
FirstBuffer(values) ==
    IF Len(values) > 0 THEN SomeBuffer(values[1]) ELSE NoBuffer

FirstNumber(values) ==
    IF Len(values) > 0 THEN SomeNumber(values[1]) ELSE NoNumber

\* RegisterClient.pauseUntilValues once the wait is over: the unpacked
\* values of the register, an empty tuple when the register has no data
RegisterValues(reg) == IF reg.has THEN <<reg.data>> ELSE <<>>

(***************************************************************************)
(* digitalRead, after state() has returned buf                             *)
(***************************************************************************)
Returned(v) == [threw |-> FALSE, val |-> v]
Thrown == [threw |-> TRUE, val |-> FALSE]

\* buf[i] : an index outside the buffer reads undefined, which >> turns to 0
ByteAt(data, i) == IF i >= 0 /\ i < Len(data) THEN data[i + 1] ELSE 0

digitalRead_noBufferCheck(buf, pin) ==
    IF IsNegative(pin) THEN Returned(FALSE)
    ELSE IF ~buf.has THEN Thrown
    ELSE LET byteIndex == Sar(ToInt32(pin), 3)
         IN  IF byteIndex >= Len(buf.data) THEN Returned(FALSE)
             ELSE LET bitIndex == Rem8(pin)
                  IN  Returned(Sar(ByteAt(buf.data, byteIndex), bitIndex) % 2 = 1)

digitalRead_noNegativeCheck(buf, pin) ==
    IF ~buf.has THEN Returned(FALSE)
    ELSE LET byteIndex == Sar(ToInt32(pin), 3)
         IN  IF byteIndex >= Len(buf.data) THEN Returned(FALSE)
             ELSE LET bitIndex == Rem8(pin)
                  IN  Returned(Sar(ByteAt(buf.data, byteIndex), bitIndex) % 2 = 1)

digitalRead_bitFromTop(buf, pin) ==
    IF ~buf.has \/ IsNegative(pin) THEN Returned(FALSE)
    ELSE LET byteIndex == Sar(ToInt32(pin), 3)
         IN  IF byteIndex >= Len(buf.data) THEN Returned(FALSE)
             ELSE LET bitIndex == 7 - Rem8(pin)
                  IN  Returned(Sar(ByteAt(buf.data, byteIndex), bitIndex) % 2 = 1)

digitalRead(buf, pin) ==
    IF ~buf.has \/ IsNegative(pin) THEN Returned(FALSE)
    ELSE LET byteIndex == Sar(ToInt32(pin), 3)
         IN  IF byteIndex >= Len(buf.data) THEN Returned(FALSE)
             ELSE LET bitIndex == Rem8(pin)
                  IN  Returned(Sar(ByteAt(buf.data, byteIndex), bitIndex) % 2 = 1)

(***************************************************************************)
(* Command frames                                                          *)
(***************************************************************************)
\* jacdac.GPIOMode: the byte sent for each mode (Jacdac GPIO service)
GPIOMode ==
    [Input |-> 1, InputPullUp |-> 17, InputPullDown |-> 33,
     OutputHigh |-> 18, OutputLow |-> 34, Alternative |-> 4]

\* JDPacket.from(cmd, buf): a frame is its command and its payload bytes
Packet(cmd, payload) == [cmd |-> cmd, payload |-> payload]

\* UTF-8 bytes of a string given as its 16-bit code units
RECURSIVE Utf8(_)
Utf8(str) ==
    IF str = <<>> THEN <<>>
    ELSE LET ch == Head(str)
         IN  (IF ch < 128 THEN <<ch>>
              ELSE IF ch < 2048
                   THEN <<192 + (ch \div 64), 128 + (ch % 64)>>
              ELSE <<224 + (ch \div 4096), 128 + ((ch \div 64) % 64),
                     128 + (ch % 64)>>) \o Utf8(Tail(str))

\* the code units of a string from its UTF-8 bytes; a byte that starts no
\* sequence of one, two or three bytes reads as the replacement character
RECURSIVE Utf8Decode(_)
Utf8Decode(bytes) ==
    IF bytes = <<>> THEN <<>>
    ELSE LET b == Head(bytes)
             n == Len(bytes)
         IN  IF b < 128 THEN <<b>> \o Utf8Decode(Tail(bytes))
             ELSE IF b >= 192 /\ b < 224 /\ n >= 2
                  THEN <<(b - 192) * 64 + (bytes[2] - 128)>>
                          \o Utf8Decode(SubSeq(bytes, 3, n))
             ELSE IF b >= 224 /\ b < 240 /\ n >= 3
                  THEN <<(b - 224) * 4096 + (bytes[2] - 128) * 64
                            + (bytes[3] - 128)>>
                          \o Utf8Decode(SubSeq(bytes, 4, n))
             ELSE <<65533>> \o Utf8Decode(Tail(bytes))

\* a surrogate code unit; alone in a string it makes the string malformed
IsSurrogate(ch) == ch >= 55296 /\ ch <= 57343

\* jdpack fails on a malformed label
PackFails(label) == \E i \in 1 .. Len(label) : IsSurrogate(label[i])

\* jdpack(GPIOCmdPack.PinByLabel, [label]): format "s", the string's bytes
PackPinByLabel(label) == Utf8(label)

\* jdunpack(payload, GPIOCmdPack.PinByLabel): the string of the bytes
UnpackPinByLabel(payload) == Utf8Decode(payload)

\* configure(pin, mode), lines 86-91
ConfigureFrame_swapped(pin, mode) ==
    Packet("Configure", <<mode % 256, ToUint8(pin)>>)

ConfigureFrame(pin, mode) ==
    Packet("Configure", <<ToUint8(pin), mode % 256>>)

\* digitalWrite(pin, high), lines 105-110: the mode handed to configure
DigitalWriteMode_inverted(high) ==
    IF high THEN GPIOMode.OutputLow ELSE GPIOMode.OutputHigh

DigitalWriteMode(high) ==
    IF high THEN GPIOMode.OutputHigh ELSE GPIOMode.OutputLow

\* requestPinInfo(pin), lines 126-130
PinInfoFrame_hwPinOpcode(pin) == Packet("PinByHwPin", <<ToUint8(pin)>>)

PinInfoFrame(pin) == Packet("PinInfo", <<ToUint8(pin)>>)

\* requestPinByLabel(label), lines 142-148
PinByLabelFrame_notPacked(label) == Packet("PinByLabel", label)

PinByLabelFrame(label) == Packet("PinByLabel", PackPinByLabel(label))

PinByHwPinFrame(hwPin) == Packet("PinByHwPin", <<ToUint8(hwPin)>>)

(***************************************************************************)
(* Calls: an operation of the client with its arguments                    *)
(***************************************************************************)
Call(op, pin, mode, high, label) ==
    [op |-> op, pin |-> pin, mode |-> mode, high |-> high, label |-> label]

NoCall == Call("none", Wide(0), 0, FALSE, <<>>)
StateOp == Call("state", Wide(0), 0, FALSE, <<>>)
DigitalReadOp(pin) == Call("digitalRead", pin, 0, FALSE, <<>>)
NumPinsOp == Call("numPins", Wide(0), 0, FALSE, <<>>)
ConfigureOp(pin, mode) == Call("configure", pin, mode, FALSE, <<>>)
DigitalWriteOp(pin, high) == Call("digitalWrite", pin, 0, high, <<>>)
RequestPinInfoOp(pin) == Call("requestPinInfo", pin, 0, FALSE, <<>>)
RequestPinByLabelOp(label) == Call("requestPinByLabel", Wide(0), 0, FALSE, label)
RequestPinByHwPinOp(hwPin) == Call("requestPinByHwPin", hwPin, 0, FALSE, <<>>)
OnDigitalStateChangedOp == Call("onDigitalStateChanged", Wide(0), 0, FALSE, <<>>)

CommandOps ==
    {"configure", "digitalWrite", "requestPinInfo", "requestPinByLabel",
     "requestPinByHwPin"}

\* sendCommand(JDPacket.jdpacked(..., [label])), lines 142-148: the frame
\* is packed before sendCommand is entered, so a failure to pack ends the
\* call without a send; the other commands fill a buffer and always send
ReachesSendCommand_always(call) == TRUE

ReachesSendCommand(call) ==
    ~(call.op = "requestPinByLabel" /\ PackFails(call.label))

\* the frame a command call hands to sendCommand after its wait
FrameOf(call) ==
    CASE call.op = "configure" -> ConfigureFrame(call.pin, call.mode)
      [] call.op = "digitalWrite" ->
            ConfigureFrame(call.pin, DigitalWriteMode(call.high))
      [] call.op = "requestPinInfo" -> PinInfoFrame(call.pin)
      [] call.op = "requestPinByLabel" -> PinByLabelFrame(call.label)
      [] call.op = "requestPinByHwPin" -> PinByHwPinFrame(call.pin)

(***************************************************************************)
(* Inputs                                                                  *)
(***************************************************************************)
Callers == {"c1", "c2"}
Handlers == {"h1", "h2"}

\* the value of the NumPins register of the device
NumPinsValues == {4}

\* bytes of the state register: between them every bit is set and clear
ByteSamples == {5, 250}

RECURSIVE SeqsUpTo(_, _)
SeqsUpTo(S, n) ==
    IF n = 0 THEN {<<>>}
    ELSE LET shorter == SeqsUpTo(S, n - 1)
         IN  shorter \cup {Append(q, x) : q \in shorter, x \in S}

Buffers == SeqsUpTo(ByteSamples, MaxBufLen)

\* pins for the bitmask decoding: every pin of the longest buffer, the pins
\* just outside it, negative pins and pins beyond 32 bits
DecodePins ==
    {Wide(n) : n \in (0 - 2) .. (8 * MaxBufLen + 1)}
        \cup {Wide(0 - 8), Wide32(1, 0), Wide32(1, 2), Wide32(0 - 1, 0),
              [hi |-> Two16 \div 2, lo |-> 0]}

\* inputs of the specification of the commands
CommandPins == {Wide(0), Wide(261)}
ConfigureModes == {GPIOMode.Alternative, GPIOMode.InputPullUp}
Labels == {<<65, 48>>, <<233, 8364>>, <<55296>>}

\* inputs of the complete specification
ReadPins == {Wide(0), Wide(0 - 1)}
ReportedStates == {<<5>>, <<>>}
SomePin == {Wide(261)}
SomeMode == {GPIOMode.Alternative}
SomeLabel == {<<65, 48>>}
SomeHandler == {"h1"}
SomeCaller == {"c1"}

(***************************************************************************)
(* State                                                                   *)
(***************************************************************************)
VARIABLES
    started,        \* the client has been started (start())
    streaming,      \* streaming of the state register is enabled
    readingData,    \* cache of the state register (_reading)
    numPinsData,    \* cache of the NumPins register (_numPins)
    numPinsQueries, \* reads of the NumPins register issued to the device
    sent,           \* frames handed to sendCommand, in order
    handlers,       \* handlers subscribed to the state register's change
    invoked,        \* handlers run by the latest change notification
    pc,             \* per caller: idle, or suspended in a wait of a call
    numPinsWaiters, \* the callers suspended on _numPins, earliest first
    lastRet,        \* the call that returned last, and its result
    callLog,        \* history: the command calls in the order they were made
    sentTickets,    \* history: for each sent frame, the index of its call
    registered      \* history: the handlers passed to onDigitalStateChanged

vars ==
    <<started, streaming, readingData, numPinsData, numPinsQueries, sent,
      handlers, invoked, pc, numPinsWaiters, lastRet, callLog, sentTickets,
      registered>>

Idle == [at |-> "idle", call |-> NoCall, ticket |-> 0]
Waiting(at, call, ticket) == [at |-> at, call |-> call, ticket |-> ticket]

Result(call, buf, res, num) ==
    [call |-> call, buf |-> buf, res |-> res, num |-> num]

Init ==
    /\ started = FALSE
    /\ streaming = FALSE
    /\ readingData = NoBuffer
    /\ numPinsData = NoNumber
    /\ numPinsQueries = 0
    /\ sent = <<>>
    /\ handlers = <<>>
    /\ invoked = <<>>
    /\ pc = [c \in Callers |-> Idle]
    /\ numPinsWaiters = <<>>
    /\ lastRet = Result(NoCall, NoBuffer, Returned(FALSE), NoNumber)
    /\ callLog = <<>>
    /\ sentTickets = <<>>
    /\ registered = <<>>

(***************************************************************************)
(* The register store, the command channel and the connection              *)
(***************************************************************************)
\* the flags the constructor registers _numPins with, lines 15-19
NumPinsFlags_none == "None"

NumPinsFlags == "Const"

\* setStreaming(on): the streaming switch of the sensor client
SetStreaming(on) == on

\* this.setStreaming(true) in state(), line 32: the switch afterwards
StreamingAfterState_toggled(cur) == SetStreaming(~cur)

StreamingAfterState_kept(cur) == SetStreaming(cur)

StreamingAfterState(cur) == SetStreaming(TRUE)

\* pauseUntilValues returns at once when the register has data
WaitReturnsAtOnce(reg) == reg.has

\* a wait on a register sends a read to the device when the register has
\* no data and was not read yet; a constant register with data is never
\* read again, any other register is refreshed by each wait
WaitIssuesRead(flags, reg, queries) ==
    IF flags = "Const" THEN ~reg.has /\ queries = 0 ELSE TRUE

\* onStateChanged(handler): one more subscription, after the earlier ones
Subscribe(subs, handler) == Append(subs, handler)

\* the change notification runs every subscription, in order
Dispatch(subs) == subs

\* sendCommand(frame): the frame is handed to the channel
SendCommand(frame, ticket) ==
    /\ sent' = Append(sent, frame)
    /\ sentTickets' = Append(sentTickets, ticket)

(***************************************************************************)
(* state() and digitalRead(pin), lines 31-56                               *)
(***************************************************************************)
\* the rest of state() / digitalRead() once the wait has returned values
ReadingReturn(call, values) ==
    LET buf == FirstBuffer(values)
    IN  lastRet' =
            IF call.op = "digitalRead"
            THEN Result(call, buf, digitalRead(buf, call.pin), NoNumber)
            ELSE Result(call, buf, Returned(FALSE), NoNumber)

ReadingCall(c, call) ==
    /\ pc[c] = Idle
    /\ streaming' = StreamingAfterState(streaming)
    /\ IF WaitReturnsAtOnce(readingData)
       THEN /\ ReadingReturn(call, RegisterValues(readingData))
            /\ pc' = pc
       ELSE /\ pc' = [pc EXCEPT ![c] = Waiting("reading", call, 0)]
            /\ lastRet' = lastRet
    /\ UNCHANGED <<started, readingData, numPinsData, numPinsQueries, sent,
                   handlers, invoked, numPinsWaiters, callLog, sentTickets,
                   registered>>

StateCall(c) == ReadingCall(c, StateOp)

DigitalReadCall(c, pin) == ReadingCall(c, DigitalReadOp(pin))

\* the state register got a value while the caller was suspended
ReadingResume(c) ==
    /\ pc[c].at = "reading"
    /\ readingData.has
    /\ ReadingReturn(pc[c].call, RegisterValues(readingData))
    /\ pc' = [pc EXCEPT ![c] = Idle]
    /\ UNCHANGED <<started, streaming, readingData, numPinsData,
                   numPinsQueries, sent, handlers, invoked, numPinsWaiters,
                   callLog, sentTickets, registered>>

\* pauseUntilValues(this.readingTimeout), lines 33-35: the wait of state()
\* is handed the reading timeout, so it ends when that has elapsed
ReadingWaitTimesOut_never == FALSE

ReadingWaitTimesOut == TRUE

\* readingTimeout elapsed and the state register still has no value
ReadingTimeout(c) ==
    /\ pc[c].at = "reading"
    /\ ReadingWaitTimesOut
    /\ ~readingData.has
    /\ ReadingReturn(pc[c].call, RegisterValues(readingData))
    /\ pc' = [pc EXCEPT ![c] = Idle]
    /\ UNCHANGED <<started, streaming, readingData, numPinsData,
                   numPinsQueries, sent, handlers, invoked, numPinsWaiters,
                   callLog, sentTickets, registered>>

(***************************************************************************)
(* numPins() and the commands, lines 66-165                                *)
(***************************************************************************)
\* the rest of a call once _numPins.pauseUntilValues() has returned values
NumPinsReturn_pinging(call, ticket, values) ==
    IF call.op = "numPins"
    THEN /\ lastRet' = Result(call, NoBuffer, Returned(FALSE), FirstNumber(values))
         /\ SendCommand(PinInfoFrame(Wide(0)), ticket)
    ELSE IF ReachesSendCommand(call)
    THEN /\ SendCommand(FrameOf(call), ticket)
         /\ lastRet' = Result(call, NoBuffer, Returned(FALSE), NoNumber)
    ELSE /\ lastRet' = Result(call, NoBuffer, Thrown, NoNumber)
         /\ UNCHANGED <<sent, sentTickets>>

NumPinsReturn(call, ticket, values) ==
    IF call.op = "numPins"
    THEN /\ lastRet' = Result(call, NoBuffer, Returned(FALSE), FirstNumber(values))
         /\ UNCHANGED <<sent, sentTickets>>
    ELSE IF ReachesSendCommand(call)
    THEN /\ SendCommand(FrameOf(call), ticket)
         /\ lastRet' = Result(call, NoBuffer, Returned(FALSE), NoNumber)
    ELSE /\ lastRet' = Result(call, NoBuffer, Thrown, NoNumber)
         /\ UNCHANGED <<sent, sentTickets>>

\* start(), then _numPins.pauseUntilValues()
NumPinsWait(c, call, ticket) ==
    /\ pc[c] = Idle
    /\ started' = TRUE
    /\ IF WaitReturnsAtOnce(numPinsData)
       THEN /\ NumPinsReturn(call, ticket, RegisterValues(numPinsData))
            /\ UNCHANGED <<pc, numPinsWaiters>>
       ELSE /\ pc' = [pc EXCEPT ![c] = Waiting("numPins", call, ticket)]
            /\ numPinsWaiters' = Append(numPinsWaiters, c)
            /\ UNCHANGED <<sent, sentTickets, lastRet>>
    /\ numPinsQueries' =
            IF WaitIssuesRead(NumPinsFlags, numPinsData, numPinsQueries)
            THEN numPinsQueries + 1 ELSE numPinsQueries
    /\ UNCHANGED <<streaming, readingData, numPinsData, handlers, invoked,
                   registered>>

NumPinsCall(c) ==
    /\ NumPinsWait(c, NumPinsOp, 0)
    /\ UNCHANGED callLog

CommandCall(c, call) ==
    /\ Len(callLog) < MaxSent
    /\ callLog' = Append(callLog, call)
    /\ NumPinsWait(c, call, Len(callLog) + 1)

ConfigureCall(c, pin, mode) == CommandCall(c, ConfigureOp(pin, mode))

DigitalWriteCall(c, pin, high) == CommandCall(c, DigitalWriteOp(pin, high))

RequestPinInfoCall(c, pin) == CommandCall(c, RequestPinInfoOp(pin))

RequestPinByLabelCall(c, label) == CommandCall(c, RequestPinByLabelOp(label))

RequestPinByHwPinCall(c, hwPin) == CommandCall(c, RequestPinByHwPinOp(hwPin))

\* the queue of waiters without caller c
RECURSIVE Without(_, _)
Without(queue, c) ==
    IF queue = <<>> THEN <<>>
    ELSE IF Head(queue) = c THEN Without(Tail(queue), c)
    ELSE <<Head(queue)>> \o Without(Tail(queue), c)

\* the NumPins register got its value while the caller was suspended; the
\* suspended callers are resumed in the order the scheduler picks
NumPinsResume(c) ==
    /\ pc[c].at = "numPins"
    /\ numPinsData.has
    /\ NumPinsReturn(pc[c].call, pc[c].ticket, RegisterValues(numPinsData))
    /\ pc' = [pc EXCEPT ![c] = Idle]
    /\ numPinsWaiters' = Without(numPinsWaiters, c)
    /\ UNCHANGED <<started, streaming, readingData, numPinsData,
                   numPinsQueries, handlers, invoked, callLog, registered>>

\* _numPins.pauseUntilValues(), lines 68, 85, 125, 141, 159: no timeout is
\* handed over, the wait is bounded by the timeout of the register store
NumPinsWaitTimesOut == TRUE

\* the wait timed out and the NumPins register still has no value; every
\* wait on _numPins has the same timeout, so the earliest waiter is first
NumPinsTimeout(c) ==
    /\ pc[c].at = "numPins"
    /\ NumPinsWaitTimesOut
    /\ ~numPinsData.has
    /\ Head(numPinsWaiters) = c
    /\ NumPinsReturn(pc[c].call, pc[c].ticket, RegisterValues(numPinsData))
    /\ pc' = [pc EXCEPT ![c] = Idle]
    /\ numPinsWaiters' = Tail(numPinsWaiters)
    /\ UNCHANGED <<started, streaming, readingData, numPinsData,
                   numPinsQueries, handlers, invoked, callLog, registered>>

(***************************************************************************)
(* onDigitalStateChanged(handler), lines 172-174                           *)
(***************************************************************************)
OnDigitalStateChangedCall_replacing(c, handler) ==
    /\ pc[c] = Idle
    /\ Len(registered) < MaxHandlers
    /\ handlers' = <<handler>>
    /\ registered' = Append(registered, handler)
    /\ lastRet' = Result(OnDigitalStateChangedOp, NoBuffer, Returned(FALSE), NoNumber)
    /\ UNCHANGED <<started, streaming, readingData, numPinsData,
                   numPinsQueries, sent, invoked, pc, numPinsWaiters,
                   callLog, sentTickets>>

OnDigitalStateChangedCall(c, handler) ==
    /\ pc[c] = Idle
    /\ Len(registered) < MaxHandlers
    /\ handlers' = Subscribe(handlers, handler)
    /\ registered' = Append(registered, handler)
    /\ lastRet' = Result(OnDigitalStateChangedOp, NoBuffer, Returned(FALSE), NoNumber)
    /\ UNCHANGED <<started, streaming, readingData, numPinsData,
                   numPinsQueries, sent, invoked, pc, numPinsWaiters,
                   callLog, sentTickets>>

(***************************************************************************)
(* The device                                                              *)
(***************************************************************************)
\* a report of the state register arrives; a changed value notifies
DeviceStateReport(data) ==
    /\ started \/ streaming
    /\ readingData' = SomeBuffer(data)
    /\ invoked' = IF readingData' # readingData THEN Dispatch(handlers)
                                                ELSE invoked
    /\ UNCHANGED <<started, streaming, numPinsData, numPinsQueries, sent,
                   handlers, pc, numPinsWaiters, lastRet, callLog,
                   sentTickets, registered>>

\* the device answers a read of the NumPins register
DeviceNumPinsReport(n) ==
    /\ started
    /\ numPinsQueries > 0
    /\ ~numPinsData.has
    /\ numPinsData' = SomeNumber(n)
    /\ UNCHANGED <<started, streaming, readingData, numPinsQueries, sent,
                   handlers, invoked, pc, numPinsWaiters, lastRet, callLog,
                   sentTickets, registered>>

(***************************************************************************)
(* Specifications                                                          *)
(***************************************************************************)
Next ==
    \/ \E c \in SomeCaller : StateCall(c)
    \/ \E c \in SomeCaller, pin \in ReadPins : DigitalReadCall(c, pin)
    \/ \E c \in SomeCaller : ReadingResume(c)
    \/ \E c \in SomeCaller : ReadingTimeout(c)
    \/ \E c \in SomeCaller : NumPinsCall(c)
    \/ \E c \in SomeCaller, pin \in SomePin, mode \in SomeMode :
            ConfigureCall(c, pin, mode)
    \/ \E c \in SomeCaller, pin \in SomePin, high \in BOOLEAN :
            DigitalWriteCall(c, pin, high)
    \/ \E c \in SomeCaller, pin \in SomePin : RequestPinInfoCall(c, pin)
    \/ \E c \in SomeCaller, label \in SomeLabel : RequestPinByLabelCall(c, label)
    \/ \E c \in SomeCaller, hwPin \in SomePin : RequestPinByHwPinCall(c, hwPin)
    \/ \E c \in SomeCaller : NumPinsResume(c)
    \/ \E c \in SomeCaller : NumPinsTimeout(c)
    \/ \E c \in SomeCaller, handler \in SomeHandler :
            OnDigitalStateChangedCall(c, handler)
    \/ \E data \in ReportedStates : DeviceStateReport(data)
    \/ \E n \in NumPinsValues : DeviceNumPinsReport(n)

Spec == Init /\ [][Next]_vars

\* (above) one caller using every operation of the client

\* the timers of the waits run, and the scheduler resumes a caller whose
\* wait is over
Fairness ==
    \A c \in SomeCaller :
        /\ WF_vars(ReadingTimeout(c))
        /\ WF_vars(ReadingResume(c))
        /\ WF_vars(NumPinsTimeout(c))
        /\ WF_vars(NumPinsResume(c))

SpecLive == Init /\ [][Next]_vars /\ Fairness

\* one caller reading pins of the streamed bitmask, over all the buffers
\* and pins of the decoding
NextDecode ==
    \/ \E pin \in DecodePins : DigitalReadCall("c1", pin)
    \/ ReadingResume("c1")
    \/ ReadingTimeout("c1")
    \/ \E data \in Buffers : DeviceStateReport(data)

SpecDecode == Init /\ [][NextDecode]_vars

\* the callers sending commands and reading numPins, over all the
\* arguments of the commands
NextCommands ==
    \/ \E c \in Callers : NumPinsCall(c)
    \/ \E c \in Callers, pin \in CommandPins, mode \in ConfigureModes :
            ConfigureCall(c, pin, mode)
    \/ \E c \in Callers, pin \in CommandPins, high \in BOOLEAN :
            DigitalWriteCall(c, pin, high)
    \/ \E c \in Callers, pin \in CommandPins : RequestPinInfoCall(c, pin)
    \/ \E c \in Callers, label \in Labels : RequestPinByLabelCall(c, label)
    \/ \E c \in Callers, hwPin \in CommandPins : RequestPinByHwPinCall(c, hwPin)
    \/ \E c \in Callers : NumPinsResume(c)
    \/ \E c \in Callers : NumPinsTimeout(c)
    \/ \E n \in NumPinsValues : DeviceNumPinsReport(n)

SpecCommands == Init /\ [][NextCommands]_vars

\* one caller sending commands whose arguments do not fit a byte
BytePins == {Wide(5), Wide(261), Wide(5 - 256), Wide32(1, 5)}
ByteModes == {GPIOMode.Alternative, GPIOMode.Alternative + 256}

NextBytes ==
    \/ \E c \in SomeCaller, pin \in BytePins, mode \in ByteModes :
            ConfigureCall(c, pin, mode)
    \/ \E c \in SomeCaller, pin \in BytePins : RequestPinInfoCall(c, pin)
    \/ \E c \in SomeCaller, hwPin \in BytePins :
            RequestPinByHwPinCall(c, hwPin)
    \/ \E c \in SomeCaller : NumPinsResume(c)
    \/ \E c \in SomeCaller : NumPinsTimeout(c)
    \/ \E n \in NumPinsValues : DeviceNumPinsReport(n)

SpecBytes == Init /\ [][NextBytes]_vars

\* handlers being registered while the device streams the state register
NextEvents ==
    \/ \E c \in Callers : StateCall(c)
    \/ \E c \in Callers : ReadingResume(c)
    \/ \E c \in Callers : ReadingTimeout(c)
    \/ \E c \in Callers, handler \in Handlers :
            OnDigitalStateChangedCall(c, handler)
    \/ \E data \in ReportedStates : DeviceStateReport(data)

SpecEvents == Init /\ [][NextEvents]_vars

(***************************************************************************)
(* Properties                                                              *)
(***************************************************************************)
\* bit n of the bitmask, by arithmetic on the byte n \div 8
BitOfMask(data, n) == (data[(n \div 8) + 1] \div (2 ^ (n % 8))) % 2 = 1

ReadReturned == lastRet.call.op = "digitalRead"

\* C1: digitalRead(pin) of a pin inside the returned buffer is true exactly
\* when bit pin % 8 (from the least significant) of byte pin >> 3 is set;
\* for the buffer [0b00000101] pins 0,1,2,3 read true,false,true,false.
C1_ReadIsBitOfBuffer ==
    (/\ ReadReturned
     /\ lastRet.buf.has
     /\ lastRet.call.pin.hi = 0
     /\ lastRet.call.pin.lo < 8 * Len(lastRet.buf.data))
        => /\ ~lastRet.res.threw
           /\ lastRet.res.val = BitOfMask(lastRet.buf.data, lastRet.call.pin.lo)
           /\ (lastRet.buf.data = <<5>> /\ lastRet.call.pin.lo < 4)
                => (lastRet.res.val = (lastRet.call.pin.lo \in {0, 2}))

C1_Witness ==
    /\ ReadReturned
    /\ lastRet.buf = SomeBuffer(<<250, 5>>)
    /\ lastRet.call.pin = Wide(10)
    /\ lastRet.res = Returned(TRUE)

\* C2: digitalRead(pin) is false for every pin >= 8 * L, L the length of
\* the returned buffer, whatever the buffer holds.
C2_ReadBeyondBufferIsFalse ==
    (/\ ReadReturned
     /\ lastRet.buf.has
     /\ \/ lastRet.call.pin.hi > 0
        \/ /\ lastRet.call.pin.hi = 0
           /\ lastRet.call.pin.lo >= 8 * Len(lastRet.buf.data))
        => lastRet.res = Returned(FALSE)

\* C3: digitalRead(pin) is false for every pin < 0, with or without a value
\* in the register cache.
C3_ReadOfNegativePinIsFalse ==
    (ReadReturned /\ lastRet.call.pin.hi < 0) => lastRet.res = Returned(FALSE)

C3_Witness ==
    /\ ReadReturned
    /\ lastRet.call.pin = Wide32(0 - 1, 0)
    /\ lastRet.buf = SomeBuffer(<<5>>)
    /\ lastRet.res = Returned(FALSE)

\* C4: when no state value has arrived and the timeout elapses, state()
\* returns no value and digitalRead(pin) returns false; neither call throws.
C4_NoValueReadsAreBenign ==
    (lastRet.call.op \in {"state", "digitalRead"} /\ ~readingData.has)
        => /\ lastRet.buf = NoBuffer
           /\ lastRet.res = Returned(FALSE)

C4_Witness ==
    /\ lastRet.call = DigitalReadOp(Wide(0))
    /\ ~readingData.has
    /\ streaming
    /\ pc["c1"] = Idle

\* C5: at most one read of the NumPins register is issued to the device;
\* once the value has arrived no wait issues a read, no call is suspended
\* on the register any more and numPins() returns the cached value.
C5_NumPinsReadOnce ==
    /\ [](numPinsQueries <= 1)
    /\ [][numPinsData.has =>
            /\ numPinsQueries' = numPinsQueries
            /\ \A c \in Callers : pc'[c].at = "numPins" => pc[c].at = "numPins"
            /\ (lastRet' # lastRet /\ lastRet'.call.op = "numPins")
                    => lastRet'.num = numPinsData]_vars

C5_Witness ==
    /\ numPinsQueries = 1
    /\ numPinsData.has
    /\ lastRet.call.op = "numPins"
    /\ lastRet.num = numPinsData
    /\ Len(sent) = 1
    /\ \A c \in Callers : pc[c] = Idle

\* C6: when digitalWrite(pin, high) has returned, the last frame sent is a
\* Configure frame with the payload [pin, OutputHigh] for high = true and
\* [pin, OutputLow] for high = false (pin as the byte it is written to).
C6_DigitalWriteFrame ==
    lastRet.call.op = "digitalWrite"
        => /\ Len(sent) > 0
           /\ sent[Len(sent)].cmd = "Configure"
           /\ sent[Len(sent)].payload =
                <<lastRet.call.pin.lo % 256,
                  IF lastRet.call.high THEN GPIOMode.OutputHigh
                                       ELSE GPIOMode.OutputLow>>

C6_Witness ==
    /\ lastRet.call = DigitalWriteOp(Wide(0), FALSE)
    /\ Len(sent) = 2
    /\ sent[2] = Packet("Configure", <<0, 34>>)

\* the positions of the frames sent by the call with the given ticket
FramesOf(ticket) == {i \in 1 .. Len(sent) : sentTickets[i] = ticket}

Suspended(ticket) ==
    \E c \in Callers : pc[c].at = "numPins" /\ pc[c].ticket = ticket

\* C7: a configure(pin, mode) whose wait is over has sent exactly one frame,
\* a Configure frame with the 2-byte payload [pin, mode], for every mode and
\* every pin, also a pin >= numPins; before that it has sent none.
C7_ConfigureSendsOneFrame ==
    \A t \in 1 .. Len(callLog) :
        callLog[t].op = "configure"
            => IF Suspended(t) THEN FramesOf(t) = {}
               ELSE /\ Cardinality(FramesOf(t)) = 1
                    /\ \A i \in FramesOf(t) :
                        /\ sent[i].cmd = "Configure"
                        /\ sent[i].payload =
                              <<callLog[t].pin.lo % 256, callLog[t].mode>>

C7_Witness ==
    /\ numPinsData = SomeNumber(4)
    /\ Len(callLog) = 1
    /\ callLog[1] = ConfigureOp(Wide(261), GPIOMode.Alternative)
    /\ sent = <<Packet("Configure", <<5, 4>>)>>

\* C8: the frames reach the command channel in the order in which their
\* calls were made, also when several callers are suspended on the wait for
\* numPins at the same time.
C8_FramesInCallOrder ==
    \A i, j \in 1 .. Len(sentTickets) :
        i < j => sentTickets[i] < sentTickets[j]

\* C9: once streaming of the state register is enabled, no step of the
\* client turns it off.
C9_StreamingStaysOn == [][streaming => streaming']_vars

C9_Witness ==
    /\ streaming
    /\ lastRet.call.op = "state"
    /\ Len(sent) > 0
    /\ handlers # <<>>
    /\ numPinsData.has

\* C10: every change notification of the state register runs each handler
\* passed to onDigitalStateChanged once, in the order of registration; a
\* later registration does not replace an earlier one.
C10_EveryHandlerRunsInOrder ==
    [][readingData' # readingData => invoked' = registered]_vars

C10_Witness ==
    /\ registered = <<"h2", "h1">>
    /\ invoked = registered
    /\ readingData.has

\* C11: a requestPinInfo(pin) whose wait is over has sent exactly one frame,
\* a PinInfo frame with the 1-byte payload [pin]; a requestPinByHwPin(hwPin)
\* exactly one PinByHwPin frame with the payload [hwPin]; the call is over
\* with the send, it is not suspended for a response.
C11_PinRequestsSendOneFrame ==
    \A t \in 1 .. Len(callLog) :
        callLog[t].op \in {"requestPinInfo", "requestPinByHwPin"}
            => IF Suspended(t) THEN FramesOf(t) = {}
               ELSE /\ Cardinality(FramesOf(t)) = 1
                    /\ \A i \in FramesOf(t) :
                        /\ sent[i].cmd =
                              (IF callLog[t].op = "requestPinInfo"
                               THEN "PinInfo" ELSE "PinByHwPin")
                        /\ sent[i].payload = <<callLog[t].pin.lo % 256>>

C11_Witness ==
    /\ callLog = <<RequestPinInfoOp(Wide(0)), RequestPinByHwPinOp(Wide(261))>>
    /\ sent = <<Packet("PinInfo", <<0>>), Packet("PinByHwPin", <<5>>)>>
    /\ \A c \in Callers : pc[c] = Idle

WellFormed(label) ==
    \A i \in 1 .. Len(label) : label[i] < 55296 \/ label[i] > 57343

\* C12: a requestPinByLabel(label) of a label that packs, once its wait is
\* over, has sent one frame on the PinByLabel opcode, and the payload of the
\* frame unpacks to the label.
C12_LabelRoundTrip ==
    \A t \in 1 .. Len(callLog) :
        (/\ callLog[t].op = "requestPinByLabel"
         /\ WellFormed(callLog[t].label)
         /\ ~Suspended(t))
            => /\ Cardinality(FramesOf(t)) = 1
               /\ \A i \in FramesOf(t) :
                    /\ sent[i].cmd = "PinByLabel"
                    /\ UnpackPinByLabel(sent[i].payload) = callLog[t].label

C12_Witness ==
    /\ callLog = <<RequestPinByLabelOp(<<65, 48>>),
                   RequestPinByLabelOp(<<233, 8364>>)>>
    /\ sent = <<Packet("PinByLabel", <<65, 48>>),
                Packet("PinByLabel", <<195, 169, 226, 130, 172>>)>>

C14_NoFrameWithoutNumPins ==
    Len(sent) > 0 => (started /\ numPinsData.has)

\* C15: state() turns streaming on before it waits, and turning it on is
\* idempotent: a caller waiting in state() or digitalRead() has streaming
\* on, streaming is on after any such call, and a state() or digitalRead()
\* call made while streaming is on leaves the switch and the subscriptions
\* as they were.
ReadingStep ==
    \E c \in SomeCaller :
        \/ pc[c].at = "idle" /\ pc'[c].at = "reading"
        \/ pc[c].at = "reading" /\ pc'[c].at = "idle"
        \/ /\ pc[c].at = "idle" /\ pc'[c].at = "idle"
           /\ lastRet' # lastRet
           /\ lastRet'.call.op \in {"state", "digitalRead"}

C15_StreamingIsIdempotent ==
    /\ [](\A c \in SomeCaller : pc[c].at = "reading" => streaming)
    /\ [](lastRet.call.op \in {"state", "digitalRead"} => streaming)
    /\ [][ReadingStep => /\ streaming'
                         /\ (streaming => streaming' = streaming)
                         /\ handlers' = handlers
                         /\ registered' = registered]_vars

C15_Witness ==
    /\ lastRet.call.op = "state"
    /\ pc["c1"].at = "reading"
    /\ pc["c1"].call.op = "digitalRead"
    /\ streaming
    /\ handlers # <<>>

\* C16: a requestPinByLabel(label) whose label cannot be packed hands no
\* frame to the command channel: the call ends without a frame of its own,
\* and the step in which it ends leaves the frames sent so far as they were.
FailingLabelCall(call) ==
    call.op = "requestPinByLabel" /\ PackFails(call.label)

C16_PackFailureSendsNothing ==
    /\ [](\A t \in 1 .. Len(callLog) :
            FailingLabelCall(callLog[t]) => FramesOf(t) = {})
    /\ [][/\ \A c \in Callers :
                (/\ pc[c].at = "numPins"
                 /\ pc'[c].at = "idle"
                 /\ FailingLabelCall(pc[c].call))
                    => sent' = sent /\ lastRet'.res = Thrown
          /\ (/\ Len(callLog') > Len(callLog)
              /\ FailingLabelCall(callLog'[Len(callLog')])
              /\ pc' = pc)
                 => sent' = sent /\ lastRet'.res = Thrown]_vars

C16_Witness ==
    /\ Len(callLog) = 2
    /\ callLog[1].op = "configure"
    /\ callLog[2] = RequestPinByLabelOp(<<55296>>)
    /\ lastRet.call = callLog[2]
    /\ lastRet.res = Thrown
    /\ Len(sent) = 1
    /\ sent[1].cmd = "Configure"
    /\ \A c \in Callers : pc[c] = Idle

\* C17: pin, mode and hwPin go into the payload bytes without a range
\* check, as their value modulo 256: the byte of a finished configure,
\* requestPinInfo or requestPinByHwPin is its argument modulo 256, and two
\* such calls of the same operation whose pins differ by 256 (and whose
\* modes are equal) have put the same frame on the channel.
Mod256(p) == (((p.hi % 256) * Two16) + p.lo) % 256

Plus256(p) ==
    IF p.lo + 256 >= Two16 THEN [hi |-> p.hi + 1, lo |-> p.lo + 256 - Two16]
    ELSE [hi |-> p.hi, lo |-> p.lo + 256]

ByteOps == {"configure", "requestPinInfo", "requestPinByHwPin"}

C17_BytesAreModulo256 ==
    /\ \A t \in 1 .. Len(callLog) :
          (callLog[t].op \in ByteOps /\ ~Suspended(t))
             => /\ FramesOf(t) # {}
                /\ \A i \in FramesOf(t) :
                      /\ sent[i].payload[1] = Mod256(callLog[t].pin)
                      /\ callLog[t].op = "configure"
                            => sent[i].payload[2] = callLog[t].mode % 256
    /\ \A t, u \in 1 .. Len(callLog) :
          (/\ callLog[t].op \in ByteOps
           /\ callLog[u].op = callLog[t].op
           /\ callLog[u].pin = Plus256(callLog[t].pin)
           /\ callLog[u].mode = callLog[t].mode
           /\ ~Suspended(t)
           /\ ~Suspended(u))
              => \A i \in FramesOf(t), j \in FramesOf(u) : sent[i] = sent[j]

C17_Witness ==
    /\ callLog = <<ConfigureOp(Wide(5), GPIOMode.Alternative),
                   ConfigureOp(Wide(261), GPIOMode.Alternative)>>
    /\ sent = <<Packet("Configure", <<5, 4>>), Packet("Configure", <<5, 4>>)>>
    /\ pc["c1"] = Idle

\* C18: state(), digitalRead(pin), numPins() and onDigitalStateChanged
\* never hand a frame to the command channel: the frames on the channel are
\* one per finished command call (none for a label that cannot be packed),
\* each the frame of its call, and a step that changes the sequence of
\* frames appends one frame and is the end of a command call.
CommandEnds ==
    \E c \in SomeCaller :
        \/ /\ pc[c].at = "numPins"
           /\ pc[c].call.op \in CommandOps
           /\ pc'[c].at = "idle"
        \/ /\ pc[c].at = "idle"
           /\ pc'[c].at = "idle"
           /\ Len(callLog') = Len(callLog) + 1

C18_OnlyCommandsSend ==
    /\ [](\A i \in 1 .. Len(sent) :
            /\ sentTickets[i] \in 1 .. Len(callLog)
            /\ sent[i] = FrameOf(callLog[sentTickets[i]]))
    /\ [](\A t \in 1 .. Len(callLog) :
            Cardinality(FramesOf(t)) =
                IF Suspended(t) \/ FailingLabelCall(callLog[t]) THEN 0 ELSE 1)
    /\ [][sent' # sent => /\ CommandEnds
                          /\ Len(sent') = Len(sent) + 1
                          /\ SubSeq(sent', 1, Len(sent)) = sent]_vars

C18_Witness ==
    /\ lastRet.call.op = "numPins"
    /\ streaming
    /\ readingData.has
    /\ handlers # <<>>
    /\ Len(callLog) = 2
    /\ Len(sent) = 2
    /\ pc["c1"] = Idle

====
